---------------------------- MODULE Spec2Model ----------------------------
(***************************************************************************)
(* A model of locale-types' LocaleString (src/src/string.rs): the builder  *)
(* (new, with_language, with_territory, with_code_set, with_modifier,      *)
(* with_modifiers), its Display implementation and its FromStr parser.     *)
(*                                                                         *)
(* A Rust String is modelled as a sequence of chars; a char is a one-      *)
(* character TLA+ string, except the two non-ASCII chars U+00E9 and U+00C9,*)
(* written "e_acute" and "E_acute".  String::len() is the length of the    *)
(* UTF-8 encoding in bytes, so each char carries its encoded width.        *)
(* Option<T> is a sequence of length 0 (None) or 1 (Some).                 *)
(***************************************************************************)
EXTENDS Naturals, Sequences, FiniteSets

VARIABLES locale, res

vars == <<locale, res>>

---------------------------------------------------------------------------
(* chars and strings *)

AsciiLower == {"a", "b", "c", "d", "e", "f", "g", "h", "i", "j", "k", "l", "m",
               "n", "o", "p", "q", "r", "s", "t", "u", "v", "w", "x", "y", "z"}

AsciiUpper == {"A", "B", "C", "D", "E", "F", "G", "H", "I", "J", "K", "L", "M",
               "N", "O", "P", "Q", "R", "S", "T", "U", "V", "W", "X", "Y", "Z"}

AsciiDigit == {"0", "1", "2", "3", "4", "5", "6", "7", "8", "9"}

\* U+00E9 (LATIN SMALL LETTER E WITH ACUTE) and U+00C9 (its capital):
\* two bytes each in UTF-8.
TwoByteChars == {"e_acute", "E_acute"}

\* char::len_utf8
len_utf8(c) == IF c \in TwoByteChars THEN 2 ELSE 1

\* char::is_lowercase (Unicode property Lowercase)
is_lowercase(c) == c \in AsciiLower \cup {"e_acute"}

\* char::is_uppercase (Unicode property Uppercase)
is_uppercase(c) == c \in AsciiUpper \cup {"E_acute"}

\* char::is_whitespace (Unicode property White_Space)
is_whitespace(c) == c \in {" ", "\t", "\n"}

\* String::len(): the number of bytes of the UTF-8 encoding
RECURSIVE StrLen(_)
StrLen(s) == IF s = <<>> THEN 0 ELSE len_utf8(Head(s)) + StrLen(Tail(s))

\* Iterator::all over s.chars()
RECURSIVE all_lowercase(_)
all_lowercase(s) ==
    IF s = <<>> THEN TRUE
    ELSE is_lowercase(Head(s)) /\ all_lowercase(Tail(s))

RECURSIVE all_uppercase(_)
all_uppercase(s) ==
    IF s = <<>> THEN TRUE
    ELSE is_uppercase(Head(s)) /\ all_uppercase(Tail(s))

RECURSIVE all_whitespace(_)
all_whitespace(s) ==
    IF s = <<>> THEN TRUE
    ELSE is_whitespace(Head(s)) /\ all_whitespace(Tail(s))

\* [String]::join(sep)
RECURSIVE Join(_, _)
Join(parts, sep) ==
    IF parts = <<>> THEN <<>>
    ELSE IF Len(parts) = 1 THEN parts[1]
    ELSE parts[1] \o sep \o Join(Tail(parts), sep)

\* Option<T>
None == <<>>
Some(v) == <<v>>

SEP_TERRITORY == "_"
SEP_CODE_SET == "."
SEP_MODIFIER == "@"

---------------------------------------------------------------------------
(* results *)

\* Ok(value) of a LocaleResult<LocaleString> or Result<LocaleString, ParseError>
Ok(v) == [kind |-> "Ok", val |-> Some(v), err |-> "", str |-> <<>>]

\* Err(error)
Err(e) == [kind |-> "Err", val |-> None, err |-> e, str |-> <<>>]

\* Result::unwrap on an Err: the thread panics
Panic == [kind |-> "Panic", val |-> None, err |-> "", str |-> <<>>]

\* the String a to_string call returns
Str(s) == [kind |-> "Str", val |-> None, err |-> "", str |-> s]

\* "C" and "POSIX"
S_C == <<"C">>
S_POSIX == <<"P", "O", "S", "I", "X">>

\* no call made yet
NoCall == [kind |-> "None", val |-> None, err |-> "", str |-> <<>>]

---------------------------------------------------------------------------
(* impl LocaleIdentifier for LocaleString *)

LocaleString(l, t, c, m) ==
    [language_code |-> l, territory |-> t, code_set |-> c, modifier |-> m]

new(language_code) ==
    IF StrLen(language_code) # 2 \/ ~all_lowercase(language_code)
    THEN Err("InvalidLanguageCode")
    ELSE Ok(LocaleString(language_code, None, None, None))

\* The with_* methods borrow the receiver (&self): each returns the receiver
\* as the call leaves it (self) and the method's result (ret).
with_language(self, language_code) ==
    IF StrLen(language_code) # 2 \/ ~all_lowercase(language_code)
    THEN [self |-> self, ret |-> Err("InvalidLanguageCode")]
    ELSE [self |-> self,
          ret |-> Ok(LocaleString(language_code, self.territory,
                                  self.code_set, self.modifier))]

\* with_territory as if it built its value the way new does, code_set: None
with_territory_resets_code_set(self, territory) ==
    IF StrLen(territory) < 2 \/ StrLen(territory) > 2 \/ ~all_uppercase(territory)
    THEN [self |-> self, ret |-> Err("InvalidTerritoryCode")]
    ELSE [self |-> self,
          ret |-> Ok(LocaleString(self.language_code, Some(territory),
                                  None, self.modifier))]

with_territory(self, territory) ==
    IF StrLen(territory) < 2 \/ StrLen(territory) > 2 \/ ~all_uppercase(territory)
    THEN [self |-> self, ret |-> Err("InvalidTerritoryCode")]
    ELSE [self |-> self,
          ret |-> Ok(LocaleString(self.language_code, Some(territory),
                                  self.code_set, self.modifier))]

\* with_code_set as if it tested code_set.is_empty()
with_code_set_rejects_empty_only(self, code_set) ==
    IF code_set = <<>>
    THEN [self |-> self, ret |-> Err("InvalidCodeSet")]
    ELSE [self |-> self,
          ret |-> Ok(LocaleString(self.language_code, self.territory,
                                  Some(code_set), self.modifier))]

with_code_set(self, code_set) ==
    IF all_whitespace(code_set)
    THEN [self |-> self, ret |-> Err("InvalidCodeSet")]
    ELSE [self |-> self,
          ret |-> Ok(LocaleString(self.language_code, self.territory,
                                  Some(code_set), self.modifier))]

with_modifier(self, modifier) ==
    [self |-> self,
     ret |-> Ok(LocaleString(self.language_code, self.territory,
                             self.code_set, Some(modifier)))]

\* format!("{}={}", key, value)
format_pair(entry) == entry[1] \o <<"=">> \o entry[2]

\* The orders in which HashMap::iter may yield the entries: any of them.
IterOrders(modifiers) ==
    {o \in [1..Cardinality(modifiers) -> modifiers] :
        \A i, j \in DOMAIN o : i # j => o[i] # o[j]}

\* with_modifiers as if it joined with ","
with_modifiers_joins_with_comma(self, order) ==
    LET modifier_strings == [i \in DOMAIN order |-> format_pair(order[i])]
    IN  [self |-> self,
         ret |-> Ok(LocaleString(self.language_code, self.territory,
                                 self.code_set,
                                 Some(Join(modifier_strings, <<",">>))))]

\* with_modifiers, the map's entries iterated in the order `order`
with_modifiers(self, order) ==
    LET modifier_strings == [i \in DOMAIN order |-> format_pair(order[i])]
    IN  [self |-> self,
         ret |-> Ok(LocaleString(self.language_code, self.territory,
                                 self.code_set,
                                 Some(Join(modifier_strings, <<";">>))))]

---------------------------------------------------------------------------
(* impl Display for LocaleString *)

\* to_string as if the code set were written before the territory
to_string_code_set_first(self) ==
    Join(<<self.language_code,
           IF self.code_set # None
           THEN <<SEP_CODE_SET>> \o self.code_set[1] ELSE <<>>,
           IF self.territory # None
           THEN <<SEP_TERRITORY>> \o self.territory[1] ELSE <<>>,
           IF self.modifier # None
           THEN <<SEP_MODIFIER>> \o self.modifier[1] ELSE <<>> >>,
         <<>>)

to_string(self) ==
    Join(<<self.language_code,
           IF self.territory # None
           THEN <<SEP_TERRITORY>> \o self.territory[1] ELSE <<>>,
           IF self.code_set # None
           THEN <<SEP_CODE_SET>> \o self.code_set[1] ELSE <<>>,
           IF self.modifier # None
           THEN <<SEP_MODIFIER>> \o self.modifier[1] ELSE <<>> >>,
         <<>>)

---------------------------------------------------------------------------
(* impl FromStr for LocaleString *)

\* the character classes of RE: [a-z], [A-Z], [a-zA-Z0-9\-_] and \w
\* (\w is Unicode-aware in the regex crate: letters, digits, '_', ...)
RE_lower == AsciiLower
RE_upper == AsciiUpper
RE_code_set == AsciiLower \cup AsciiUpper \cup AsciiDigit \cup {"-", "_"}
RE_word == AsciiLower \cup AsciiUpper \cup AsciiDigit \cup {"_"} \cup TwoByteChars

\* the first position at or after i whose char is not in Class (a greedy X*)
RECURSIVE RunEnd(_, _, _)
RunEnd(s, i, Class) ==
    IF i <= Len(s) /\ s[i] \in Class THEN RunEnd(s, i + 1, Class) ELSE i

\* RE.captures(s) for
\*   ^([a-z][a-z]+)(_[A-Z][A-Z]+)?(\.[A-Z][a-zA-Z0-9\-_]+)?(@\w+)?$
\* None, or Some of the four groups (groups 2..4 are Options, each with its
\* leading separator).  No class contains the char that may follow its group,
\* so the greedy match is the only one.
RE_captures(s) ==
    LET n  == Len(s)
        p1 == RunEnd(s, 1, RE_lower)
        q2 == RunEnd(s, p1 + 1, RE_upper)
        m2 == p1 <= n /\ s[p1] = "_" /\ q2 - (p1 + 1) >= 2
        p2 == IF m2 THEN q2 ELSE p1
        q3 == RunEnd(s, p2 + 2, RE_code_set)
        m3 == /\ p2 + 1 <= n
              /\ s[p2] = "."
              /\ s[p2 + 1] \in RE_upper
              /\ q3 - (p2 + 2) >= 1
        p3 == IF m3 THEN q3 ELSE p2
        q4 == RunEnd(s, p3 + 1, RE_word)
        m4 == p3 <= n /\ s[p3] = "@" /\ q4 - (p3 + 1) >= 1
        p4 == IF m4 THEN q4 ELSE p3
    IN  IF p1 - 1 >= 2 /\ p4 = n + 1
        THEN Some([g1 |-> SubSeq(s, 1, p1 - 1),
                   g2 |-> IF m2 THEN Some(SubSeq(s, p1, p2 - 1)) ELSE None,
                   g3 |-> IF m3 THEN Some(SubSeq(s, p2, p3 - 1)) ELSE None,
                   g4 |-> IF m4 THEN Some(SubSeq(s, p3, p4 - 1)) ELSE None])
        ELSE None

\* the group as captured, as if from_str passed group_str.as_str() on
keep_separator(group_str) == group_str

\* group_str.as_str()[1..]: the group without its first byte, the separator
strip_separator(group_str) == Tail(group_str)

\* the Some(groups) arm of from_str: every step is unwrapped, so an Err from
\* new or a with_* method panics
build_from_groups(groups) ==
    LET r1 == new(groups.g1)
    IN  IF r1.kind # "Ok" THEN Panic
        ELSE
        LET r2 == IF groups.g2 # None
                  THEN with_territory(r1.val[1], strip_separator(groups.g2[1])).ret
                  ELSE r1
        IN  IF r2.kind # "Ok" THEN Panic
            ELSE
            LET r3 == IF groups.g3 # None
                      THEN with_code_set(r2.val[1], strip_separator(groups.g3[1])).ret
                      ELSE r2
            IN  IF r3.kind # "Ok" THEN Panic
                ELSE
                LET r4 == IF groups.g4 # None
                          THEN with_modifier(r3.val[1], strip_separator(groups.g4[1])).ret
                          ELSE r3
                IN  IF r4.kind # "Ok" THEN Panic ELSE Ok(r4.val[1])

\* from_str as if it matched RE before it tested for "C" and "POSIX"
from_str_matches_first(s) ==
    IF s = <<>> THEN Err("EmptyString")
    ELSE LET captures == RE_captures(s)
         IN  IF captures = None THEN Err("RegexFailure")
             ELSE IF s = S_C \/ s = S_POSIX THEN Err("PosixUnsupported")
             ELSE build_from_groups(captures[1])

from_str(s) ==
    IF s = <<>> THEN Err("EmptyString")
    ELSE IF s = S_C \/ s = S_POSIX THEN Err("PosixUnsupported")
    ELSE LET captures == RE_captures(s)
         IN  IF captures = None THEN Err("RegexFailure")
             ELSE build_from_groups(captures[1])

---------------------------------------------------------------------------
(* the inputs *)

\* the longest language or territory code tried, in chars
MaxCodeLen == 2
\* the longest code set tried, in chars
MaxCodeSetLen == 1
\* the longest modifier tried, in chars
MaxModifierLen == 1
\* the longest unstructured input to from_str tried, in chars
MaxParseLen == 3

RECURSIVE StringsOver(_, _)
StringsOver(Alphabet, n) ==
    IF n = 0 THEN {<<>>}
    ELSE LET shorter == StringsOver(Alphabet, n - 1)
         IN  shorter \cup {Append(s, c) : s \in shorter, c \in Alphabet}

S_en == <<"e", "n">>
S_eng == <<"e", "n", "g">>
S_english == <<"e", "n", "g", "l", "i", "s", "h">>
S_EN == <<"E", "N">>
S_US == <<"U", "S">>
S_USA == <<"U", "S", "A">>
S_us == <<"u", "s">>
S_UTF8 == <<"U", "T", "F", "-", "8">>
S_utf8 == <<"u", "t", "f", "-", "8">>
S_Latn == <<"L", "a", "t", "n">>
S_collation == <<"c", "o", "l", "l", "a", "t", "i", "o", "n">>
S_pinyin == <<"p", "i", "n", "y", "i", "n">>
S_currency == <<"c", "u", "r", "r", "e", "n", "c", "y">>
S_CNY == <<"C", "N", "Y">>
S_collation_currency ==
    S_collation \o <<"=">> \o S_pinyin \o <<";">> \o S_currency \o <<"=">> \o S_CNY

LangArgs ==
    StringsOver({"e", "E"}, MaxCodeLen)
        \cup {S_en, S_eng, S_english, S_EN,
              <<"e_acute">>, <<"e_acute", "e_acute">>}

TerritoryArgs ==
    StringsOver({"U", "u"}, MaxCodeLen)
        \cup {S_US, S_USA, S_us, <<"E_acute">>, <<"E_acute", "E_acute">>}

CodeSetArgs ==
    StringsOver({"U", " "}, MaxCodeSetLen) \cup {S_UTF8, S_utf8}

ModifierArgs ==
    StringsOver({"a"}, MaxModifierLen) \cup {S_collation_currency}

\* a HashMap is the set of its (key, value) entries, the keys distinct
ModifierMaps == SUBSET {<<S_collation, S_pinyin>>, <<S_currency, S_CNY>>}

\* inputs to from_str: a language part, then optionally '_' and a territory
\* part, '.' and a code set part, '@' and a modifier part, each part well or
\* ill formed; every short string over the grammar's chars; and samples
StructuredInputs ==
    {l \o t \o c \o m :
        l \in StringsOver({"e"}, MaxCodeLen) \cup {S_en, S_eng, S_EN, <<"e_acute">>},
        t \in {<<>>} \cup {<<"_">> \o x :
                              x \in StringsOver({"U"}, MaxCodeLen) \cup {S_US, S_USA, S_us}},
        c \in {<<>>} \cup {<<".">> \o x : x \in CodeSetArgs},
        m \in {<<>>} \cup {<<"@">> \o x : x \in ModifierArgs \cup {S_Latn}}}

ParseSamples ==
    {S_C, S_POSIX, <<"c">>, <<"C", "C">>, <<"P", "O", "S", "I">>,
     S_en \o <<"_">> \o S_US \o <<".">> \o S_UTF8 \o <<"@">> \o S_Latn,
     S_en \o <<"@">> \o S_Latn \o <<".">> \o S_UTF8,
     S_en \o <<".">> \o S_UTF8 \o <<"_">> \o S_US,
     S_en \o <<"@", "e_acute">>,
     S_en \o <<"\n">>}

ParseInputs ==
    StructuredInputs
        \cup StringsOver({"e", "U", "8", "_", ".", "@"}, MaxParseLen)
        \cup ParseSamples

---------------------------------------------------------------------------
(* the program: a caller that holds at most one LocaleString (locale) and   *)
(* the last call it made (res): the method, its argument, the receiver      *)
(* before (recv) and after (self) the call, and what the call returned.     *)

Call(op, arg, modifiers, recv, self, out) ==
    [op |-> op, arg |-> arg, modifiers |-> modifiers,
     recv |-> recv, self |-> self, out |-> out]

Init ==
    /\ locale = None
    /\ res = Call("none", <<>>, {}, None, None, NoCall)

\* let locale = LocaleString::new(code)
New(code) ==
    LET out == new(code)
    IN  /\ res' = Call("new", code, {}, None, None, out)
        /\ locale' = out.val

\* let locale = LocaleString::from_str(s).  from_str is an associated function
\* without a receiver: what it returns depends on s alone.
FromStr(s) ==
    LET out == from_str(s)
    IN  /\ res' = Call("from_str", s, {}, None, None, out)
        /\ locale' = out.val

\* a with_* call on locale; the caller keeps the new value when there is one
With(op, arg, modifiers, r) ==
    /\ res' = Call(op, arg, modifiers, locale, Some(r.self), r.ret)
    /\ locale' = IF r.ret.kind = "Ok" THEN r.ret.val ELSE Some(r.self)

WithLanguage(code) ==
    /\ locale # None
    /\ With("with_language", code, {}, with_language(locale[1], code))

WithTerritory(code) ==
    /\ locale # None
    /\ With("with_territory", code, {}, with_territory(locale[1], code))

WithCodeSet(code) ==
    /\ locale # None
    /\ With("with_code_set", code, {}, with_code_set(locale[1], code))

WithModifier(text) ==
    /\ locale # None
    /\ With("with_modifier", text, {}, with_modifier(locale[1], text))

WithModifiers(modifiers) ==
    /\ locale # None
    /\ \E order \in IterOrders(modifiers) :
          With("with_modifiers", <<>>, modifiers, with_modifiers(locale[1], order))

\* locale.to_string()
ToString ==
    /\ locale # None
    /\ res' = Call("to_string", <<>>, {}, locale, locale, Str(to_string(locale[1])))
    /\ locale' = locale

\* the caller's first call parses an input
ParseInput ==
    /\ res.op = "none"
    /\ \E s \in ParseInputs : FromStr(s)

\* LocaleString::from_str(&text), text the String to_string just returned
Reparse ==
    /\ res.op = "to_string"
    /\ FromStr(res.out.str)

Next ==
    \/ \E code \in LangArgs : New(code)
    \/ ParseInput
    \/ \E code \in LangArgs : WithLanguage(code)
    \/ \E code \in TerritoryArgs : WithTerritory(code)
    \/ \E code \in CodeSetArgs : WithCodeSet(code)
    \/ \E text \in ModifierArgs : WithModifier(text)
    \/ \E modifiers \in ModifierMaps : WithModifiers(modifiers)
    \/ ToString
    \/ Reparse

Spec == Init /\ [][Next]_vars

---------------------------------------------------------------------------
(* the grammar of from_str's regular expression, stated by its shape       *)

\* every char of x from position i on is in Class
AllIn(x, i, Class) == \A k \in i..Len(x) : x[k] \in Class

\* ([a-z][a-z]+)
IsLanguageGroup(x) == Len(x) >= 2 /\ AllIn(x, 1, RE_lower)

\* (_[A-Z][A-Z]+)?
IsTerritoryGroup(x) ==
    x = <<>> \/ (Len(x) >= 3 /\ x[1] = "_" /\ AllIn(x, 2, RE_upper))

\* (\.[A-Z][a-zA-Z0-9\-_]+)?
IsCodeSetGroup(x) ==
    x = <<>> \/ (/\ Len(x) >= 3
                 /\ x[1] = "."
                 /\ x[2] \in RE_upper
                 /\ AllIn(x, 3, RE_code_set))

\* (@\w+)?
IsModifierGroup(x) ==
    x = <<>> \/ (Len(x) >= 2 /\ x[1] = "@" /\ AllIn(x, 2, RE_word))

\* s is its first i chars (the language group), then chars i+1..j (the
\* territory group or nothing), j+1..k (code set) and k+1.. (modifier)
IsSplit(s, i, j, k) ==
    /\ IsLanguageGroup(SubSeq(s, 1, i))
    /\ IsTerritoryGroup(SubSeq(s, i + 1, j))
    /\ IsCodeSetGroup(SubSeq(s, j + 1, k))
    /\ IsModifierGroup(SubSeq(s, k + 1, Len(s)))

\* s matches the grammar
MatchesGrammar(s) ==
    \E i \in 0..Len(s) : \E j \in i..Len(s) : \E k \in j..Len(s) : IsSplit(s, i, j, k)

\* an optional group as a field: absent, or present without its separator
GroupField(x) == IF x = <<>> THEN None ELSE Some(SubSeq(x, 2, Len(x)))

---------------------------------------------------------------------------
(* the claims *)

BuilderOps == {"with_language", "with_territory", "with_code_set",
               "with_modifier", "with_modifiers"}

\* C1: round trip: from_str of the string to_string returned for a value
\* built by new and with_* calls is Ok of a value equal to it in all four fields.
C1_RoundTrip ==
    [][(res.op = "to_string" /\ res'.op = "from_str")
          => res'.out = Ok(res.recv[1])]_vars

\* C2: from_str never panics: it returns Ok or a ParseError for every input,
\* and Ok whenever the input matches the grammar (every internal new / with_*
\* call on the captured groups succeeds).
C2_FromStrTotal ==
    res.op = "from_str" =>
        /\ res.out.kind \in {"Ok", "Err"}
        /\ MatchesGrammar(res.arg) /\ res.arg \notin {S_C, S_POSIX}
              => res.out.kind = "Ok"

\* C3: new(code) and with_language(code) succeed iff code is exactly 2 chars
\* long and all its chars are lowercase, and fail with InvalidLanguageCode
\* otherwise; new's value has the code and no territory, code set or modifier.
C3_LanguageValidity ==
    res.op \in {"new", "with_language"} =>
        /\ res.out.kind = "Ok"
              <=> (Len(res.arg) = 2 /\ \A i \in 1..Len(res.arg) : is_lowercase(res.arg[i]))
        /\ res.out.kind # "Ok" => res.out = Err("InvalidLanguageCode")
        /\ res.out.kind = "Ok" => res.out.val[1].language_code = res.arg
        /\ (res.op = "new" /\ res.out.kind = "Ok")
              => res.out.val[1] = LocaleString(res.arg, None, None, None)

\* C4: with_territory(code) succeeds iff code is exactly 2 chars long and all
\* its chars are uppercase, and fails with InvalidTerritoryCode otherwise; on
\* success territory() is Some(code).
C4_TerritoryValidity ==
    res.op = "with_territory" =>
        /\ res.out.kind = "Ok"
              <=> (Len(res.arg) = 2 /\ \A i \in 1..Len(res.arg) : is_uppercase(res.arg[i]))
        /\ res.out.kind # "Ok" => res.out = Err("InvalidTerritoryCode")
        /\ res.out.kind = "Ok" => res.out.val[1].territory = Some(res.arg)

\* the fields a with_* method is not about
OtherFields(op) ==
    {"language_code", "territory", "code_set", "modifier"}
        \ {CASE op = "with_language" -> "language_code"
             [] op = "with_territory" -> "territory"
             [] op = "with_code_set" -> "code_set"
             [] OTHER -> "modifier"}

\* C5: a with_* call leaves the receiver's four fields as they were, whether
\* it succeeds or fails, and the value it returns equals the receiver in the
\* three fields the method is not about.
C5_Frame ==
    res.op \in BuilderOps =>
        /\ res.self = res.recv
        /\ res.out.kind = "Ok" =>
              \A f \in OtherFields(res.op) : res.out.val[1][f] = res.recv[1][f]

C5_Witness ==
    /\ res.op = "with_territory"
    /\ res.out.kind = "Ok"
    /\ res.recv[1].code_set = Some(S_UTF8)
    /\ res.recv[1].modifier = Some(S_collation_currency)
    /\ res.recv[1].territory # res.out.val[1].territory

\* C6: to_string is the language code, then '_' and the territory iff there
\* is one, then '.' and the code set iff there is one, then '@' and the
\* modifier iff there is one, and nothing else.
C6_CanonicalSerialization ==
    res.op = "to_string" =>
        LET v == res.recv[1]
            s == res.out.str
            a == Len(v.language_code)
            b == a + (IF v.territory = None THEN 0 ELSE 1 + Len(v.territory[1]))
            c == b + (IF v.code_set = None THEN 0 ELSE 1 + Len(v.code_set[1]))
            d == c + (IF v.modifier = None THEN 0 ELSE 1 + Len(v.modifier[1]))
        IN  /\ res.out.kind = "Str"
            /\ Len(s) = d
            /\ SubSeq(s, 1, a) = v.language_code
            /\ v.territory # None => SubSeq(s, a + 1, b) = <<"_">> \o v.territory[1]
            /\ v.code_set # None => SubSeq(s, b + 1, c) = <<".">> \o v.code_set[1]
            /\ v.modifier # None => SubSeq(s, c + 1, d) = <<"@">> \o v.modifier[1]

C6_Witness ==
    /\ res.op = "to_string"
    /\ res.recv = Some(LocaleString(S_en, Some(S_US), Some(S_UTF8),
                                    Some(S_collation_currency)))
    /\ res.out.str = S_en \o <<"_">> \o S_US \o <<".">> \o S_UTF8
                        \o <<"@">> \o S_collation_currency

\* C7: when from_str(s) is Ok, s matches the grammar, the value's language
\* code is the language group, and its territory, code set and modifier are
\* each Some of the group without its separator when s has that group and
\* None when it has not.
C7_ParseDecomposition ==
    (res.op = "from_str" /\ res.out.kind = "Ok") =>
        LET s == res.arg
            v == res.out.val[1]
        IN  /\ MatchesGrammar(s)
            /\ \A i \in 0..Len(s) : \A j \in i..Len(s) : \A k \in j..Len(s) :
                  IsSplit(s, i, j, k) =>
                      /\ v.language_code = SubSeq(s, 1, i)
                      /\ v.territory = GroupField(SubSeq(s, i + 1, j))
                      /\ v.code_set = GroupField(SubSeq(s, j + 1, k))
                      /\ v.modifier = GroupField(SubSeq(s, k + 1, Len(s)))

C7_Witness ==
    /\ res.op = "from_str"
    /\ res.arg = S_en \o <<"_">> \o S_US \o <<".">> \o S_UTF8 \o <<"@">> \o S_Latn
    /\ res.out = Ok(LocaleString(S_en, Some(S_US), Some(S_UTF8), Some(S_Latn)))

\* C8: from_str("") fails with EmptyString, from_str("C") and
\* from_str("POSIX") with PosixUnsupported, and every other input that does
\* not match the grammar with RegexFailure.
C8_ParseErrorPrecedence ==
    res.op = "from_str" =>
        /\ res.arg = <<>> => res.out = Err("EmptyString")
        /\ res.arg \in {S_C, S_POSIX} => res.out = Err("PosixUnsupported")
        /\ (res.arg # <<>> /\ res.arg \notin {S_C, S_POSIX} /\ ~MatchesGrammar(res.arg))
              => res.out = Err("RegexFailure")

C8_Witness ==
    /\ res.op = "from_str"
    /\ res.arg = S_POSIX
    /\ ~MatchesGrammar(res.arg)
    /\ res.out = Err("PosixUnsupported")

\* C9: with_code_set(code) succeeds iff code has a char that is not
\* whitespace, and fails with InvalidCodeSet otherwise; on success code_set()
\* is Some(code), as given.
C9_CodeSetValidity ==
    res.op = "with_code_set" =>
        /\ res.out.kind = "Ok"
              <=> \E i \in 1..Len(res.arg) : ~is_whitespace(res.arg[i])
        /\ res.out.kind # "Ok" => res.out = Err("InvalidCodeSet")
        /\ res.out.kind = "Ok" => res.out.val[1].code_set = Some(res.arg)

C9_Witness ==
    /\ res.op = "with_code_set"
    /\ res.arg = S_utf8
    /\ res.out.kind = "Ok"
    /\ res.out.val[1].code_set = Some(S_utf8)

\* the pieces of s between the occurrences of sep
RECURSIVE Split(_, _)
Split(s, sep) ==
    IF \A i \in 1..Len(s) : s[i] # sep THEN <<s>>
    ELSE LET i == CHOOSE i \in 1..Len(s) :
                      s[i] = sep /\ \A k \in 1..(i - 1) : s[k] # sep
         IN  <<SubSeq(s, 1, i - 1)>> \o Split(SubSeq(s, i + 1, Len(s)), sep)

\* C10: with_modifiers(map) succeeds for every map, the empty one too, and
\* its modifier is the "key=value" strings of the map's entries, one for each
\* entry, joined by ';'; with_modifier(text) succeeds for every text, the
\* empty one too, and its modifier is Some(text), which is not None.
C10_Modifiers ==
    /\ res.op = "with_modifiers" =>
          /\ res.out.kind = "Ok"
          /\ res.out.val[1].modifier # None
          /\ LET m == res.out.val[1].modifier[1]
                 pieces == Split(m, ";")
             IN  IF res.modifiers = {} THEN m = <<>>
                 ELSE /\ Len(pieces) = Cardinality(res.modifiers)
                      /\ {pieces[i] : i \in 1..Len(pieces)}
                            = {e[1] \o <<"=">> \o e[2] : e \in res.modifiers}
    /\ res.op = "with_modifier" =>
          /\ res.out.kind = "Ok"
          /\ res.out.val[1].modifier = Some(res.arg)
          /\ res.out.val[1].modifier # None

C10_Witness ==
    /\ res.op = "with_modifiers"
    /\ Cardinality(res.modifiers) = 2
    /\ res.out.kind = "Ok"
    /\ res.out.val[1].modifier
          = Some(S_currency \o <<"=">> \o S_CNY \o <<";">> \o S_collation \o <<"=">> \o S_pinyin)

\* C11: every LocaleString that new, the with_* methods and from_str return
\* as Ok (and so every value a caller holds) has a language code of exactly
\* 2 chars, all lowercase letters; a territory that, when present, is exactly
\* 2 chars, all uppercase letters; and a code set that, when present, is not
\* all whitespace.
C11_DataModelInvariant ==
    LET Letters == AsciiLower \cup AsciiUpper \cup TwoByteChars
        Valid(v) ==
            /\ Len(v.language_code) = 2
            /\ \A i \in 1..Len(v.language_code) :
                  v.language_code[i] \in Letters /\ is_lowercase(v.language_code[i])
            /\ v.territory # None =>
                  /\ Len(v.territory[1]) = 2
                  /\ \A i \in 1..Len(v.territory[1]) :
                        v.territory[1][i] \in Letters /\ is_uppercase(v.territory[1][i])
            /\ v.code_set # None =>
                  \E i \in 1..Len(v.code_set[1]) : ~is_whitespace(v.code_set[1][i])
    IN  /\ locale # None => Valid(locale[1])
        /\ res.out.kind = "Ok" => Valid(res.out.val[1])

===========================================================================
